---- MODULE Spec2Model ----
(***************************************************************************)
(* State machine of the D&D party planner backend: the party_invites and   *)
(* party_attendees association tables, the parties and users tables, the   *)
(* APScheduler job store of PartyScheduler and the request handlers of     *)
(* app/main.py and app/routes/*.py that act on them.                       *)
(*                                                                         *)
(* Database semantics the handlers rely on (SQLite through SQLAlchemy):    *)
(*  - both association tables have the composite primary key               *)
(*    (party_id, user_id); an INSERT of a second row with the same key     *)
(*    raises IntegrityError;                                               *)
(*  - database.py never issues PRAGMA foreign_keys=ON, so the ON DELETE    *)
(*    CASCADE clauses of models.py are not enforced: rows are removed      *)
(*    only by the DELETE statements a handler executes (and by the ORM     *)
(*    for relationships it knows);                                         *)
(*  - parties.id is INTEGER PRIMARY KEY without AUTOINCREMENT: a new row   *)
(*    gets max(id)+1, so the id of a deleted last party is used again;     *)
(*  - SELECTs run outside a write transaction; the statements from the     *)
(*    first INSERT/UPDATE/DELETE of a handler to its commit are atomic     *)
(*    with respect to other handlers (one writer at a time).               *)
(*  - the status column is Enum(InviteStatus): SQLAlchemy (1.4 and later) *)
(*    converts the stored string when it fetches a row, so a SELECT of a   *)
(*    row whose status is not a member name raises LookupError.            *)
(* Times are whole numbers of half hours.                                  *)
(***************************************************************************)
EXTENDS Integers, Sequences, FiniteSets, Bags, TLC

\* ---------------------------------------------------------------- bounds
NumUsers == 2        \* registered users 1..NumUsers
MaxPartyId == 1      \* party ids 1..MaxPartyId
MaxTime == 6         \* the clock and the start times range over 0..MaxTime
MaxInflight == 2     \* respond_to_invite requests between their reads and writes
MaxEmails == 2       \* length of PartyCreate.invite_emails
MaxTokens == 1       \* access tokens issued and not yet forgotten by their holders

\* timedelta(hours=1) in half hours
HOUR == 2

UserIds == 1..NumUsers
PartyIds == 1..MaxPartyId
DateTimes == 0..MaxTime
\* e-mail addresses: user i signs up with address i; address 0 belongs to nobody
EmailAddrs == 0..NumUsers
NULL == 0

VARIABLES
  app,              \* which set of handlers is deployed: "main" or "routes"
  users,            \* users table: id -> email
  parties,          \* parties table: id -> [creator_id, date_time]
  party_invites,    \* bag of rows [party_id, user_id, status]
  party_attendees,  \* bag of rows [party_id, user_id]
  jobs,             \* APScheduler job store: set of [id, run_date]
  now,              \* datetime.now()
  inflight,         \* bag of respond_to_invite requests that have done their reads
  last,             \* the last completed operation and its outcome (history)
  tasks,            \* BackgroundTasks of the latest response: the send_email calls
                    \* it queued, in order, each with what has become of it
  firing,           \* the run of _send_party_reminder in progress, or the last one
  tokens            \* the access tokens login has issued: set of [sub, exp], each
                    \* with the id of the user it was issued to (history)

vars == <<app, users, parties, party_invites, party_attendees, jobs, now, inflight, last,
          tasks, firing, tokens>>

\* InviteStatus and the raw string main.py writes into the status column
PENDING == "PENDING"
ACCEPTED == "ACCEPTED"
DECLINED == "DECLINED"
RawPending == "pending"
InviteStatus == {PENDING, ACCEPTED, DECLINED}

\* ---------------------------------------------------------------- tables
InviteRow(p, u, s) == [party_id |-> p, user_id |-> u, status |-> s]
AttendRow(p, u) == [party_id |-> p, user_id |-> u]

\* rows of a table that satisfy a WHERE clause
InvitesOf(tbl, p, u) == {r \in DOMAIN tbl : r.party_id = p /\ r.user_id = u}

RECURSIVE SumCopies(_, _)
SumCopies(tbl, rows) ==
  IF rows = {} THEN 0
  ELSE LET r == CHOOSE x \in rows : TRUE
       IN tbl[r] + SumCopies(tbl, rows \ {r})

\* number of rows with a given key
InviteCount(tbl, p, u) == SumCopies(tbl, InvitesOf(tbl, p, u))
AttendCount(tbl, p, u) == CopiesIn(AttendRow(p, u), tbl)

\* the table a DELETE ... WHERE leaves: the rows in keep, with their copies
Keep(tbl, keep) == [r \in keep |-> tbl[r]]

\* the composite primary key (party_id, user_id) of both association tables
NoPrimaryKey(tbl, p, u) == FALSE
PrimaryKeyTaken(tbl, p, u) == \E r \in DOMAIN tbl : r.party_id = p /\ r.user_id = u

InsertRow(tbl, row) == tbl (+) SetToBag({row})

\* UPDATE party_invites SET status = s WHERE user_id = u AND party_id = p
RECURSIVE UpdateEveryInviteOfParty(_, _, _, _)
UpdateEveryInviteOfParty(tbl, p, u, s) ==
  LET hit == {r \in DOMAIN tbl : r.party_id = p /\ r.status # s}
  IN IF hit = {} THEN tbl
     ELSE LET r == CHOOSE x \in hit : TRUE
          IN UpdateEveryInviteOfParty(
               Keep(tbl, {x \in DOMAIN tbl : x # r}) (+) [x \in {InviteRow(p, r.user_id, s)} |-> tbl[r]],
               p, u, s)
KeepStatus(tbl, p, u, s) == tbl
UpdateStatus(tbl, p, u, s) ==
  LET hit == InvitesOf(tbl, p, u)
      keep == Keep(tbl, {r \in DOMAIN tbl : r \notin hit})
  IN IF hit = {} THEN tbl
     ELSE keep (+) [r \in {InviteRow(p, u, s)} |-> SumCopies(tbl, hit)]

\* the status the handlers read for (p, u): "NONE" when there is no row
StatusOf(tbl, p, u) ==
  IF InvitesOf(tbl, p, u) = {} THEN "NONE"
  ELSE (CHOOSE r \in InvitesOf(tbl, p, u) : TRUE).status

\* db.query(models.User).filter(models.User.email == email).first()
UserByEmail(e) ==
  LET found == {u \in DOMAIN users : users[u] = e}
  IN IF found = {} THEN NULL ELSE CHOOSE u \in found : \A v \in found : u <= v

\* party.creator: the lazy load of the user row creator_id points at
CreatorLoaded(creator_id) == creator_id \in DOMAIN users

\* ---------------------------------------------------------------- scheduler
JobsOf(js, p) == {j \in js : j.id = p}

\* BackgroundScheduler.add_job(..., id=..., replace_existing=True)
AddJobKeepExisting(js, p, t) == js \cup {[id |-> p, run_date |-> t]}
add_job(js, p, t) == {j \in js : j.id # p} \cup {[id |-> p, run_date |-> t]}

\* PartyScheduler.schedule_party_reminder
schedule_party_reminder(js, p, party_time, clock) ==
  LET reminder_time == party_time - HOUR
  IN IF reminder_time > clock THEN add_job(js, p, reminder_time) ELSE js

\* PartyScheduler.remove_party_reminder
RemoveNothing(js, p) == js
remove_party_reminder(js, p) ==
  IF JobsOf(js, p) # {} THEN {j \in js : j.id # p} ELSE js

\* ---------------------------------------------------------------- outcome
\* pre is what the operation found when it wrote (for respond_to_invite and
\* request_to_join the status of the caller's invite row, "NONE" without one)
Outcome(op, u, p, arg, code, pre) ==
  [op |-> op, user |-> u, party |-> p, arg |-> arg, code |-> code, pre |-> pre, seen |-> "-"]
\* what a handler that arms or disarms a reminder found in the job store
Armed(p) == IF JobsOf(jobs, p) = {} THEN "none" ELSE "armed"
Scheduled(op, u, p, code, pre) ==
  [op |-> op, user |-> u, party |-> p, arg |-> 0, code |-> code, pre |-> pre, seen |-> Armed(p)]
\* seen is the status respond_to_invite read before it wrote
Responded(u, p, accept, code, pre, seen) ==
  [op |-> "respond_to_invite", user |-> u, party |-> p, arg |-> IF accept THEN 1 ELSE 0,
   code |-> code, pre |-> pre, seen |-> seen]

Max(S) == CHOOSE x \in S : \A y \in S : y <= x
Min(S) == CHOOSE x \in S : \A y \in S : x <= y

\* background_tasks.add_task(email_service.send_email, to, ...)
add_task(to) == [to |-> to, state |-> "queued"]
Queued == {i \in DOMAIN tasks : tasks[i].state = "queued"}

\* a run of _send_party_reminder: the party id the job carries, the attendees
\* the lazy load of party.attendees returned, the ones the loop has still to
\* visit and the send_email calls made so far, each with its outcome
Run(stage, p, attendees, todo, attempted) ==
  [stage |-> stage, party |-> p, attendees |-> attendees, todo |-> todo, attempted |-> attempted]
Idle == Run("idle", 0, {}, <<>>, <<>>)
Running == firing.stage \in {"party", "sending"}

Init ==
  /\ app \in {"main", "routes"}
  /\ users = [u \in UserIds |-> u]
  /\ parties = <<>>
  /\ party_invites = EmptyBag
  /\ party_attendees = EmptyBag
  /\ jobs = {}
  /\ now = 0
  /\ inflight = EmptyBag
  /\ last = Outcome("none", 0, 0, 0, 0, "-")
  /\ tasks = <<>>
  /\ firing = Idle
  /\ tokens = {}

\* ---------------------------------------------------------------- helpers

\* the rowid SQLite gives the next INSERT INTO parties
NextPartyId == IF DOMAIN parties = {} THEN 1 ELSE Max(DOMAIN parties) + 1

RECURSIVE Elements(_)
Elements(seq) == IF seq = <<>> THEN {} ELSE {Head(seq)} \cup Elements(Tail(seq))

\* one iteration order of set(party.invite_emails)
RECURSIVE SetToSeq(_)
SetToSeq(S) == IF S = {} THEN <<>> ELSE <<Min(S)>> \o SetToSeq(S \ {Min(S)})

KeepDuplicates(emails) == emails
unique_emails(emails) == SetToSeq(Elements(emails))

\* the loop "for email in ...: invited_user = ...; if invited_user: INSERT"
\* res.ok is FALSE once an INSERT has raised IntegrityError
RECURSIVE InsertInvites(_, _, _, _)
InsertInvites(res, p, emails, s) ==
  IF emails = <<>> \/ ~res.ok THEN res
  ELSE LET invited_user == UserByEmail(Head(emails))
       IN IF invited_user = NULL THEN InsertInvites(res, p, Tail(emails), s)
          ELSE IF PrimaryKeyTaken(res.tbl, p, invited_user)
               THEN [ok |-> FALSE, tbl |-> res.tbl]
               ELSE InsertInvites([ok |-> TRUE,
                                   tbl |-> InsertRow(res.tbl, InviteRow(p, invited_user, s))],
                                  p, Tail(emails), s)

\* the recipients of the send_email tasks the invite loop queues
RECURSIVE InvitationsTo(_)
InvitationsTo(emails) ==
  IF emails = <<>> THEN <<>>
  ELSE IF UserByEmail(Head(emails)) = NULL THEN InvitationsTo(Tail(emails))
  ELSE <<add_task(Head(emails))>> \o InvitationsTo(Tail(emails))

EmailLists == UNION {[1..n -> EmailAddrs] : n \in 0..MaxEmails}

\* ---------------------------------------------------------------- handlers
\* POST /parties
create_party(u, dt, emails) ==
  /\ u \in DOMAIN users
  /\ NextPartyId <= MaxPartyId
  /\ LET p == NextPartyId
         todo == IF app = "routes" THEN unique_emails(emails) ELSE emails
         s == IF app = "routes" THEN PENDING ELSE RawPending
         res == InsertInvites([ok |-> TRUE, tbl |-> party_invites], p, todo, s)
     IN /\ parties' = (p :> [creator_id |-> u, date_time |-> dt]) @@ parties
        /\ jobs' = schedule_party_reminder(jobs, p, dt, now)
        /\ party_invites' = IF res.ok THEN res.tbl ELSE party_invites
        /\ last' = Scheduled("create_party", u, p, IF res.ok THEN 200 ELSE 500,
                             IF res.ok THEN "-" ELSE "CONFLICT")
        \* a response that is an error runs no background task
        /\ tasks' = IF res.ok THEN InvitationsTo(todo) ELSE <<>>
  /\ UNCHANGED <<app, tokens, users, party_attendees, now, inflight, firing>>

\* PUT /parties/{party_id}/respond-invite: the two SELECTs
respond_to_invite_read(u, p, accept) ==
  /\ u \in DOMAIN users
  /\ LET seen == StatusOf(party_invites, p, u)
         found == p \in DOMAIN parties /\ seen \in InviteStatus
     IN IF found
        THEN /\ BagCardinality(inflight) < MaxInflight
             /\ inflight' = inflight (+) SetToBag({[user |-> u, party |-> p, accept |-> accept,
                                                    creator_id |-> parties[p].creator_id,
                                                    seen |-> seen]})
             /\ UNCHANGED <<last, tasks>>
        ELSE \* HTTPException(404), and the LookupError of a row with a status
             \* outside InviteStatus, are caught by "except Exception": 500
             /\ last' = Responded(u, p, accept, 500, seen, seen)
             /\ tasks' = <<>>
             /\ UNCHANGED inflight
  /\ UNCHANGED <<app, tokens, users, parties, party_invites, party_attendees, jobs, now, firing>>

\* PUT /parties/{party_id}/respond-invite: UPDATE, INSERT, notify, commit
respond_to_invite_write(r) ==
  /\ r \in DOMAIN inflight
  /\ inflight' = inflight (-) SetToBag({r})
  /\ LET u == r.user
         p == r.party
         status == IF r.accept THEN ACCEPTED ELSE DECLINED
         pre == StatusOf(party_invites, p, u)
         integrity_error == r.accept /\ PrimaryKeyTaken(party_attendees, p, u)
         attribute_error == app = "main" /\ ~CreatorLoaded(r.creator_id)
         ok == ~integrity_error /\ ~attribute_error
     IN /\ party_invites' = IF ok THEN UpdateStatus(party_invites, p, u, status)
                            ELSE party_invites
        /\ party_attendees' = IF ok /\ r.accept
                              THEN InsertRow(party_attendees, AttendRow(p, u))
                              ELSE party_attendees
        /\ last' = Responded(u, p, r.accept, IF ok THEN 200 ELSE 500, pre, r.seen)
        \* party.creator.email: without a creator row routes swallows the
        \* AttributeError and queues nothing
        /\ tasks' = IF ok /\ CreatorLoaded(r.creator_id) THEN <<add_task(users[r.creator_id])>>
                    ELSE <<>>
  /\ UNCHANGED <<app, tokens, users, parties, jobs, now, firing>>

\* PUT /parties/{party_id}
update_party(u, p, given, dt, aware) ==
  /\ u \in DOMAIN users
  /\ IF p \notin DOMAIN parties \/ parties[p].creator_id # u
     THEN /\ last' = Outcome("update_party", u, p, 0, 404, "-")
          /\ UNCHANGED <<parties, jobs>>
     ELSE LET old_date_time == parties[p].date_time
              changed == /\ given
                         /\ \/ dt # old_date_time
                            \/ app = "main" /\ aware
              removed == remove_party_reminder(jobs, p)
          IN IF ~changed
             THEN /\ last' = Scheduled("update_party", u, p, 200, "same")
                  /\ UNCHANGED <<parties, jobs>>
             ELSE IF aware
             THEN \* reminder_time > datetime.now() raises TypeError
                  /\ jobs' = removed
                  /\ last' = Scheduled("update_party", u, p, 500, "changed")
                  /\ UNCHANGED parties
             ELSE /\ jobs' = schedule_party_reminder(removed, p, dt, now)
                  /\ parties' = [parties EXCEPT ![p].date_time = dt]
                  /\ last' = Scheduled("update_party", u, p, 200, "changed")
  /\ tasks' = <<>>
  /\ UNCHANGED <<app, tokens, users, party_invites, party_attendees, now, inflight, firing>>

\* PUT /parties/{party_id}, statement by statement, for requests that run at
\* the same time in the worker threads: an update between its SELECT and its
\* commit, with the statement it executes next and what get_job returned
UpdateRequest(u, p, dt, aware, pc, found) ==
  [user |-> u, party |-> p, date_time |-> dt, aware |-> aware, pc |-> pc, found |-> found]
Advance(r, pc, found) == [r EXCEPT !.pc = pc, !.found = found]

\* the SELECT of the party and the comparison of the two date_time values
update_party_read(u, p, given, dt, aware) ==
  /\ u \in DOMAIN users
  /\ IF p \notin DOMAIN parties \/ parties[p].creator_id # u
     THEN /\ last' = Outcome("update_party", u, p, 0, 404, "-")
          /\ UNCHANGED inflight
     ELSE LET changed == /\ given
                         /\ \/ dt # parties[p].date_time
                            \/ app = "main" /\ aware
          IN IF ~changed
             THEN /\ last' = Scheduled("update_party", u, p, 200, "same")
                  /\ UNCHANGED inflight
             ELSE /\ BagCardinality(inflight) < MaxInflight
                  /\ inflight' = inflight (+)
                                   SetToBag({UpdateRequest(u, p, dt, aware, "get_job", FALSE)})
                  /\ UNCHANGED last
  /\ tasks' = IF inflight' = inflight THEN <<>> ELSE tasks
  /\ UNCHANGED <<app, tokens, users, parties, party_invites, party_attendees, jobs, now, firing>>

\* remove_party_reminder: self.scheduler.get_job(job_id)
update_party_get_job(r) ==
  /\ r \in DOMAIN inflight /\ r.pc = "get_job"
  /\ inflight' = (inflight (-) SetToBag({r})) (+)
                    SetToBag({Advance(r, IF JobsOf(jobs, r.party) # {} THEN "remove_job"
                                         ELSE "schedule", JobsOf(jobs, r.party) # {})})
  /\ UNCHANGED <<app, tokens, users, parties, party_invites, party_attendees, jobs, now, last, tasks,
                  firing>>

\* remove_party_reminder: self.scheduler.remove_job(job_id), which raises
\* JobLookupError when the job is no longer in the store
update_party_remove_job(r) ==
  /\ r \in DOMAIN inflight /\ r.pc = "remove_job"
  /\ IF JobsOf(jobs, r.party) = {}
     THEN /\ inflight' = inflight (-) SetToBag({r})
          /\ last' = Scheduled("update_party", r.user, r.party, 500, "changed")
          /\ tasks' = <<>>
          /\ UNCHANGED jobs
     ELSE /\ jobs' = remove_party_reminder(jobs, r.party)
          /\ inflight' = (inflight (-) SetToBag({r})) (+) SetToBag({Advance(r, "schedule", TRUE)})
          /\ UNCHANGED <<last, tasks>>
  /\ UNCHANGED <<app, tokens, users, parties, party_invites, party_attendees, now, firing>>

\* schedule_party_reminder(party_id, new_date_time)
update_party_schedule(r) ==
  /\ r \in DOMAIN inflight /\ r.pc = "schedule"
  /\ IF r.aware
     THEN \* reminder_time > datetime.now() raises TypeError
          /\ inflight' = inflight (-) SetToBag({r})
          /\ last' = Scheduled("update_party", r.user, r.party, 500, "changed")
          /\ tasks' = <<>>
          /\ UNCHANGED jobs
     ELSE /\ jobs' = schedule_party_reminder(jobs, r.party, r.date_time, now)
          /\ inflight' = (inflight (-) SetToBag({r})) (+) SetToBag({Advance(r, "commit", r.found)})
          /\ UNCHANGED <<last, tasks>>
  /\ UNCHANGED <<app, tokens, users, parties, party_invites, party_attendees, now, firing>>

\* db.commit(): the UPDATE of the row the request loaded; the ORM raises
\* StaleDataError when the row is gone
update_party_commit(r) ==
  /\ r \in DOMAIN inflight /\ r.pc = "commit"
  /\ inflight' = inflight (-) SetToBag({r})
  /\ IF r.party \notin DOMAIN parties
     THEN /\ last' = Scheduled("update_party", r.user, r.party, 500, "changed")
          /\ UNCHANGED parties
     ELSE /\ parties' = [parties EXCEPT ![r.party].date_time = r.date_time]
          /\ last' = Scheduled("update_party", r.user, r.party, 200, "changed")
  /\ tasks' = <<>>
  /\ UNCHANGED <<app, tokens, users, party_invites, party_attendees, jobs, now, firing>>

\* DELETE /parties/{party_id}
KeepAttendees(tbl, p) == tbl
DeleteAttendeesOfParty(tbl, p) == Keep(tbl, {r \in DOMAIN tbl : r.party_id # p})
DeleteInvitesOfParty(tbl, p) == Keep(tbl, {r \in DOMAIN tbl : r.party_id # p})

delete_party(u, p) ==
  /\ u \in DOMAIN users
  /\ IF p \notin DOMAIN parties \/ parties[p].creator_id # u
     THEN /\ last' = Outcome("delete_party", u, p, 0, 404, "-")
          /\ UNCHANGED <<parties, party_invites, party_attendees>>
     ELSE /\ party_invites' = DeleteInvitesOfParty(party_invites, p)
          /\ party_attendees' = DeleteAttendeesOfParty(party_attendees, p)
          /\ parties' = [q \in DOMAIN parties \ {p} |-> parties[q]]
          /\ last' = Outcome("delete_party", u, p, 0, 200,
                              IF \E r \in DOMAIN party_invites \cup DOMAIN party_attendees :
                                    r.party_id = p
                              THEN "rows" ELSE "-")
  /\ tasks' = <<>>
  /\ UNCHANGED <<app, tokens, users, jobs, now, inflight, firing>>

\* DELETE /parties/{party_id}/attendees/{user_id}
DeleteEveryAttendee(tbl, p, user_id) == Keep(tbl, {r \in DOMAIN tbl : r.party_id # p})
DeleteAttendee(tbl, p, user_id) ==
  Keep(tbl, {r \in DOMAIN tbl : ~(r.user_id = user_id /\ r.party_id = p)})

remove_attendee(u, p, user_id) ==
  /\ u \in DOMAIN users
  /\ IF p \notin DOMAIN parties \/ parties[p].creator_id # u
     THEN /\ last' = Outcome("remove_attendee", u, p, user_id, 404, "-")
          /\ UNCHANGED party_attendees
     ELSE /\ party_attendees' = DeleteAttendee(party_attendees, p, user_id)
          /\ last' = Outcome("remove_attendee", u, p, user_id, 200,
                              IF PrimaryKeyTaken(party_attendees, p, user_id)
                              THEN "row" ELSE "-")
  /\ tasks' = <<>>
  /\ UNCHANGED <<app, tokens, users, parties, party_invites, jobs, now, inflight, firing>>

\* POST /parties/{party_id}/join-request
request_to_join(u, p) ==
  /\ u \in DOMAIN users
  /\ LET pre == StatusOf(party_invites, p, u)
     IN IF p \notin DOMAIN parties
        THEN /\ last' = Outcome("request_to_join", u, p, 0, 404, pre)
             /\ tasks' = <<>>
             /\ UNCHANGED party_invites
        ELSE IF PrimaryKeyTaken(party_invites, p, u)
        THEN \* the INSERT raises IntegrityError, which nothing catches
             /\ last' = Outcome("request_to_join", u, p, 0, 500, pre)
             /\ tasks' = <<>>
             /\ UNCHANGED party_invites
        ELSE IF app = "routes"
        THEN \* the SELECT after the INSERT finds the row just inserted;
             \* the HTTPException leaves the handler before db.commit()
             /\ last' = Outcome("request_to_join", u, p, 0, 400, pre)
             /\ tasks' = <<>>
             /\ UNCHANGED party_invites
        ELSE IF ~CreatorLoaded(parties[p].creator_id)
        THEN /\ last' = Outcome("request_to_join", u, p, 0, 500, pre)
             /\ tasks' = <<>>
             /\ UNCHANGED party_invites
        ELSE /\ party_invites' = InsertRow(party_invites, InviteRow(p, u, RawPending))
             /\ last' = Outcome("request_to_join", u, p, 0, 200, pre)
             /\ tasks' = <<add_task(users[parties[p].creator_id])>>
  /\ UNCHANGED <<app, tokens, users, parties, party_attendees, jobs, now, inflight, firing>>

\* DELETE /users/me
delete_user_account(u) ==
  /\ app = "routes"
  /\ u \in DOMAIN users
  /\ party_invites' = Keep(party_invites, {r \in DOMAIN party_invites : r.user_id # u})
  /\ party_attendees' = Keep(party_attendees, {r \in DOMAIN party_attendees : r.user_id # u})
  /\ parties' = [q \in {x \in DOMAIN parties : parties[x].creator_id # u} |-> parties[q]]
  /\ users' = [v \in DOMAIN users \ {u} |-> users[v]]
  /\ last' = Outcome("delete_user_account", u, 0, 0, 200, "-")
  /\ tasks' = <<>>
  /\ UNCHANGED <<app, tokens, jobs, now, inflight, firing>>

\* DELETE /admin/users/{user_id}, called by the seeded admin
delete_user(user_id) ==
  /\ app = "routes"
  /\ IF user_id \notin DOMAIN users
     THEN /\ last' = Outcome("delete_user", 0, 0, user_id, 404, "-")
          /\ UNCHANGED <<users, parties, party_attendees>>
     ELSE \* db.delete(user): the ORM nulls Party.creator_id of created_parties
          \* and deletes the party_attendees rows of attending_parties
          /\ parties' = [q \in DOMAIN parties |->
                           IF parties[q].creator_id = user_id
                           THEN [parties[q] EXCEPT !.creator_id = NULL]
                           ELSE parties[q]]
          /\ party_attendees' =
               Keep(party_attendees,
                           {r \in DOMAIN party_attendees : ~(r.user_id = user_id /\ r.party_id \in DOMAIN parties)})
          /\ users' = [v \in DOMAIN users \ {user_id} |-> users[v]]
          /\ last' = Outcome("delete_user", 0, 0, user_id, 200, "-")
  /\ tasks' = <<>>
  /\ UNCHANGED <<app, tokens, party_invites, jobs, now, inflight, firing>>

\* ---------------------------------------------------------------- accounts
\* users.id is INTEGER PRIMARY KEY: a new row gets max(id)+1
NextUserId == IF DOMAIN users = {} THEN 1 ELSE Max(DOMAIN users) + 1

\* the UNIQUE index of users.email, as the INSERT or UPDATE of row u meets it
EmailTaken(e, u) == \E v \in DOMAIN users : v # u /\ users[v] = e
EmailNeverTaken(e, u) == FALSE

\* a signup between its SELECT and its INSERT
SignupRequest(e) == [email |-> e]

\* POST /auth/signup: the SELECT by email
signup_read(e) ==
  /\ IF UserByEmail(e) # NULL
     THEN /\ last' = Outcome("signup", 0, 0, e, 400, "registered")
          /\ UNCHANGED inflight
     ELSE /\ BagCardinality(inflight) < MaxInflight
          /\ NextUserId <= NumUsers
          /\ inflight' = inflight (+) SetToBag({SignupRequest(e)})
          /\ UNCHANGED last
  /\ UNCHANGED <<app, tokens, users, parties, party_invites, party_attendees, jobs, now, tasks, firing>>

\* POST /auth/signup: db.add(db_user), db.commit(); the IntegrityError of a
\* UNIQUE index is not caught. username_free is whether the UNIQUE index of
\* users.username accepts the username of the request.
signup_write(r, username_free) ==
  /\ r \in DOMAIN inflight
  /\ username_free \/ DOMAIN users # {}
  /\ inflight' = inflight (-) SetToBag({r})
  /\ LET pre == IF UserByEmail(r.email) # NULL THEN "registered" ELSE "free"
         integrity_error == EmailTaken(r.email, NextUserId) \/ ~username_free
     IN IF integrity_error
        THEN /\ last' = Outcome("signup", 0, 0, r.email, 500, pre)
             /\ UNCHANGED users
        ELSE /\ NextUserId <= NumUsers
             /\ users' = (NextUserId :> r.email) @@ users
             /\ last' = Outcome("signup", NextUserId, 0, r.email, 200, pre)
  /\ UNCHANGED <<app, tokens, parties, party_invites, party_attendees, jobs, now, tasks, firing>>

\* PUT /users/me: given is whether user_update.email is set
update_user(u, given, e, username_free) ==
  /\ u \in DOMAIN users
  /\ username_free \/ DOMAIN users # {u}
  /\ LET pre == IF UserByEmail(e) # NULL THEN "registered" ELSE "free"
         integrity_error == (given /\ EmailTaken(e, u)) \/ ~username_free
     IN IF integrity_error
        THEN /\ last' = Outcome("update_user", u, 0, e, 500, pre)
             /\ UNCHANGED users
        ELSE /\ users' = IF given THEN [users EXCEPT ![u] = e] ELSE users
             /\ last' = Outcome("update_user", u, 0, e, 200, pre)
  /\ UNCHANGED <<app, tokens, parties, party_invites, party_attendees, jobs, now, inflight, tasks,
                  firing>>

\* ---------------------------------------------------------------- access tokens
\* ACCESS_TOKEN_EXPIRE_MINUTES: 60 minutes unless the environment says otherwise
ACCESS_TOKEN_EXPIRE_MINUTES == HOUR

\* create_access_token(data={"sub": user.email}, expires_delta): the claims of
\* the JWT; issued_to is not part of the token, it records who logged in
create_access_token(sub, clock, issued_to) ==
  [sub |-> sub, exp |-> clock + ACCESS_TOKEN_EXPIRE_MINUTES, issued_to |-> issued_to]

\* POST /auth/login; password_ok is whether verify_password accepts
login(e, password_ok) ==
  /\ LET user == UserByEmail(e)
     IN IF user = NULL \/ ~password_ok
        THEN /\ last' = Outcome("login", 0, 0, e, 401, "-")
             /\ UNCHANGED tokens
        ELSE /\ Cardinality(tokens) < MaxTokens
             /\ tokens' = tokens \cup {create_access_token(users[user], now, user)}
             /\ last' = Outcome("login", user, 0, e, 200, "-")
  /\ UNCHANGED <<app, users, parties, party_invites, party_attendees, jobs, now, inflight,
                  tasks, firing>>

\* get_current_user: jwt.decode rejects a token whose exp has passed; the user
\* is the row whose email is the sub claim, NULL stands for the 401
get_current_user(t) ==
  IF t.exp < now THEN NULL ELSE UserByEmail(t.sub)

\* ---------------------------------------------------------------- time
\* the scheduler thread runs a job when its run_date is reached
Due == {j \in jobs : j.run_date <= now}

Tick ==
  /\ now < MaxTime
  /\ Due = {}
  /\ now' = now + 1
  /\ last' = Outcome("tick", 0, 0, 0, 0, "-")
  /\ UNCHANGED <<app, tokens, users, parties, party_invites, party_attendees, jobs, inflight,
                  tasks, firing>>

FireKeepsJob(j) ==
  /\ j \in Due
  /\ ~Running
  /\ firing' = Run(IF j.id \in DOMAIN parties THEN "party" ELSE "skipped", j.id, {}, <<>>, <<>>)
  /\ last' = Outcome("fire", 0, j.id, j.run_date, 0, "-")
  /\ UNCHANGED <<app, tokens, users, parties, party_invites, party_attendees, jobs, now, inflight, tasks>>

\* a DateTrigger job runs once and is then removed from the job store;
\* _send_party_reminder starts with the SELECT of the party
fire(j) ==
  /\ j \in Due
  /\ ~Running
  /\ jobs' = jobs \ {j}
  /\ firing' = Run(IF j.id \in DOMAIN parties THEN "party" ELSE "skipped", j.id, {}, <<>>, <<>>)
  /\ last' = Outcome("fire", 0, j.id, j.run_date, 0, "-")
  /\ UNCHANGED <<app, tokens, users, parties, party_invites, party_attendees, now, inflight, tasks>>

\* party.attendees: the users joined to the party_attendees rows of the party
Attendees(p) == {u \in DOMAIN users : PrimaryKeyTaken(party_attendees, p, u)}

\* _send_party_reminder: the lazy load of party.attendees
load_attendees ==
  /\ firing.stage = "party"
  /\ LET found == Attendees(firing.party)
     IN firing' = Run(IF found = {} THEN "done" ELSE "sending", firing.party,
                      found, SetToSeq(found), <<>>)
  /\ UNCHANGED <<app, tokens, users, parties, party_invites, party_attendees, jobs, now, inflight,
                  last, tasks>>

\* _send_party_reminder: one pass of the loop; ok is whether send_email
\* returns or raises, and an exception leaves the loop
StageAfterSend(todo, ok) ==
  IF ~ok THEN "error" ELSE IF Len(todo) = 1 THEN "done" ELSE "sending"

send_reminder(ok) ==
  /\ firing.stage = "sending"
  /\ firing' = Run(StageAfterSend(firing.todo, ok), firing.party, firing.attendees,
                   Tail(firing.todo), Append(firing.attempted, Head(firing.todo)))
  /\ UNCHANGED <<app, tokens, users, parties, party_invites, party_attendees, jobs, now, inflight,
                  last, tasks>>

\* ---------------------------------------------------------------- background tasks
\* Starlette runs the tasks of a response one after the other once the response
\* has been sent; a task that raises ends the run
AfterTask(ts, i, ok) ==
  [k \in DOMAIN ts |->
     IF k = i THEN [ts[k] EXCEPT !.state = IF ok THEN "sent" ELSE "failed"]
     ELSE IF k > i /\ ~ok THEN [ts[k] EXCEPT !.state = "dropped"]
     ELSE ts[k]]

SendInRequest(ok) ==
  /\ Queued # {}
  /\ tasks' = AfterTask(tasks, Min(Queued), ok)
  /\ last' = IF ok THEN last ELSE [last EXCEPT !.code = 500]
  /\ UNCHANGED <<app, tokens, users, parties, party_invites, party_attendees, jobs, now, inflight,
                  firing>>

run_background_task(ok) ==
  /\ Queued # {}
  /\ tasks' = AfterTask(tasks, Min(Queued), ok)
  /\ UNCHANGED <<app, tokens, users, parties, party_invites, party_attendees, jobs, now, inflight,
                  last, firing>>

\* ---------------------------------------------------------------- specifications
\* The invite ledger: every handler that reads or writes party_invites or
\* party_attendees, at a fixed time of day (parties start at MaxTime).
Next ==
  \/ \E u \in UserIds, emails \in EmailLists : create_party(u, MaxTime, emails)
  \/ \E u \in UserIds, p \in PartyIds, accept \in BOOLEAN : respond_to_invite_read(u, p, accept)
  \/ \E r \in DOMAIN inflight : respond_to_invite_write(r)
  \/ \E u \in UserIds, p \in PartyIds : delete_party(u, p)
  \/ \E u \in UserIds, p \in PartyIds, t \in UserIds : remove_attendee(u, p, t)
  \/ \E u \in UserIds, p \in PartyIds : request_to_join(u, p)
  \/ \E u \in UserIds : delete_user_account(u)
  \/ \E t \in UserIds : delete_user(t)

Spec == Init /\ [][Next]_vars

\* The reminder scheduler: the party lifecycle, the clock and the job store,
\* with parties that invite nobody.
NextSched ==
  \/ \E u \in UserIds, dt \in DateTimes : create_party(u, dt, <<>>)
  \/ \E u \in UserIds, p \in PartyIds, given \in BOOLEAN, dt \in DateTimes, aware \in BOOLEAN :
        update_party(u, p, given, dt, aware)
  \/ \E u \in UserIds, p \in PartyIds : delete_party(u, p)
  \/ \E u \in UserIds : delete_user_account(u)
  \/ Tick
  \/ \E j \in jobs : fire(j)
  \/ load_attendees

SpecSched == Init /\ [][NextSched]_vars

\* The reminder run next to the handlers that change who attends: responses
\* are answered one at a time, and every party starts at RemindTime.
RemindTime == HOUR + 1
NextRemind ==
  \/ \E u \in UserIds, emails \in EmailLists : create_party(u, RemindTime, emails)
  \/ /\ inflight = EmptyBag
     /\ \E u \in UserIds, p \in PartyIds, accept \in BOOLEAN : respond_to_invite_read(u, p, accept)
  \/ \E r \in DOMAIN inflight : respond_to_invite_write(r)
  \/ \E u \in UserIds, p \in PartyIds : delete_party(u, p)
  \/ \E u \in UserIds, p \in PartyIds, t \in UserIds : remove_attendee(u, p, t)
  \/ Tick
  \/ \E j \in jobs : fire(j)
  \/ load_attendees
  \/ \E ok \in BOOLEAN : send_reminder(ok)

SpecRemind == Init /\ [][NextRemind]_vars

\* The background e-mails: a worker runs the background tasks of a response
\* before it answers the next request; the clock stands still.
NextMail ==
  \/ /\ Queued = {}
     /\ \/ \E u \in UserIds, emails \in EmailLists : create_party(u, MaxTime, emails)
        \/ /\ inflight = EmptyBag
           /\ \E u \in UserIds, p \in PartyIds, accept \in BOOLEAN :
                 respond_to_invite_read(u, p, accept)
        \/ \E r \in DOMAIN inflight : respond_to_invite_write(r)
        \/ \E u \in UserIds, p \in PartyIds : delete_party(u, p)
        \/ \E u \in UserIds, p \in PartyIds : request_to_join(u, p)
  \/ \E ok \in BOOLEAN : run_background_task(ok)

SpecMail == Init /\ [][NextMail]_vars

\* ---------------------------------------------------------------- claims

\* C1: in every reachable state there is at most one party_invites row and at
\* most one party_attendees row for each (user, party) pair, whatever the
\* interleaving of the handlers, two concurrent accepts included.
C1_OneRowPerPair ==
  \A p \in PartyIds, u \in UserIds :
    /\ InviteCount(party_invites, p, u) <= 1
    /\ AttendCount(party_attendees, p, u) <= 1

\* the second of two concurrent accepts of one PENDING invite has been answered
C1_Witness ==
  /\ last.op = "respond_to_invite" /\ last.arg = 1
  /\ last.seen = PENDING /\ last.pre = ACCEPTED /\ last.code = 500
  /\ AttendCount(party_attendees, last.party, last.user) = 1
  /\ InviteCount(party_invites, last.party, last.user) = 1

\* C2: a response to an invite whose status is PENDING succeeds; accept makes
\* it ACCEPTED with exactly one party_attendees row for the pair, decline makes
\* it DECLINED and adds no party_attendees row.
C2_RespondToPending ==
  [][\A r \in DOMAIN inflight :
       (/\ respond_to_invite_write(r)
        /\ r.seen = PENDING
        /\ StatusOf(party_invites, r.party, r.user) = PENDING)
       => /\ last'.code = 200
          /\ IF r.accept
             THEN /\ StatusOf(party_invites', r.party, r.user) = ACCEPTED
                  /\ AttendCount(party_attendees', r.party, r.user) = 1
             ELSE /\ StatusOf(party_invites', r.party, r.user) = DECLINED
                  /\ party_attendees' = party_attendees]_vars

\* C3: a join request for an existing party by a user without an invite row
\* succeeds and leaves exactly one PENDING row for the pair.
C3_JoinRequestCreatesPending ==
  [][\A u \in UserIds, p \in PartyIds :
       (/\ request_to_join(u, p)
        /\ p \in DOMAIN parties
        /\ StatusOf(party_invites, p, u) = "NONE")
       => /\ last'.code = 200
          /\ InviteCount(party_invites', p, u) = 1
          /\ StatusOf(party_invites', p, u) = PENDING]_vars

\* C4: an invite or join request for a pair that already has an invite row is
\* rejected with a Conflict error, not an internal error, and changes no row.
ConflictCodes == {400, 409}
C4_DuplicateIsConflict ==
  [][/\ \A u \in UserIds, p \in PartyIds :
          (/\ request_to_join(u, p)
           /\ p \in DOMAIN parties
           /\ PrimaryKeyTaken(party_invites, p, u))
          => /\ last'.code \in ConflictCodes
             /\ party_invites' = party_invites
             /\ party_attendees' = party_attendees
     /\ (/\ last' # last /\ last'.op = "create_party" /\ last'.pre = "CONFLICT"
         /\ \E u \in UserIds : PrimaryKeyTaken(party_invites, last'.party, u))
          => /\ last'.code \in ConflictCodes
             /\ party_invites' = party_invites
             /\ party_attendees' = party_attendees]_vars

\* C5 as claimed: the status of an invite row changes only from PENDING to
\* ACCEPTED or DECLINED, and only by a response of the row's user.
C5_OnlyOutOfPending ==
  [][\A p \in PartyIds, u \in UserIds :
       LET s == StatusOf(party_invites, p, u)
           t == StatusOf(party_invites', p, u)
       IN (s # "NONE" /\ t # "NONE" /\ s # t)
          => /\ s = PENDING
             /\ t \in {ACCEPTED, DECLINED}
             /\ last'.op = "respond_to_invite" /\ last'.user = u /\ last'.party = p]_vars

\* C5 as amended: the status of an invite row changes only to ACCEPTED or
\* DECLINED (from any status, never back to PENDING), and only by a successful
\* response of the row's user.
C5_OnlyByOwnResponse ==
  [][\A p \in PartyIds, u \in UserIds :
       LET s == StatusOf(party_invites, p, u)
           t == StatusOf(party_invites', p, u)
       IN (s # "NONE" /\ t # "NONE" /\ s # t)
          => /\ t \in {ACCEPTED, DECLINED}
             /\ last'.op = "respond_to_invite" /\ last'.code = 200
             /\ last'.user = u /\ last'.party = p]_vars

\* a response has just moved an invite out of ACCEPTED
C5_Witness ==
  /\ last.op = "respond_to_invite" /\ last.code = 200
  /\ last.pre = ACCEPTED /\ last.arg = 0
  /\ StatusOf(party_invites, last.party, last.user) = DECLINED

\* C6: right after a reminder is scheduled for party p with start time T and
\* T - 1h in the future, the job store holds exactly one job for p, at T - 1h;
\* scheduling again replaces it, and no state holds two jobs for one party.
JustScheduled ==
  \/ last.op = "create_party"
  \/ last.op = "update_party" /\ last.code = 200 /\ last.pre = "changed"
ReminderJob(p) == [id |-> p, run_date |-> parties[p].date_time - HOUR]
C6_OneJobPerParty ==
  /\ \A p \in PartyIds : Cardinality(JobsOf(jobs, p)) <= 1
  /\ (JustScheduled /\ parties[last.party].date_time - HOUR > now)
       => JobsOf(jobs, last.party) = {ReminderJob(last.party)}

\* a reminder has just been scheduled over a job that was armed for the id
C6_Witness ==
  /\ JustScheduled /\ last.seen = "armed"
  /\ parties[last.party].date_time - HOUR > now
  /\ JobsOf(jobs, last.party) = {ReminderJob(last.party)}

\* C7: right after a reminder is scheduled for party p with T - 1h at or before
\* now, the job store holds no job for p, whatever it held before.
C7_NoJobWhenDue ==
  (JustScheduled /\ parties[last.party].date_time - HOUR <= now)
    => JobsOf(jobs, last.party) = {}

\* C8: after a successful delete_party(p) the parties row is gone and no
\* party_invites or party_attendees row references p.
C8_DeleteCascades ==
  (last.op = "delete_party" /\ last.code = 200)
    => /\ last.party \notin DOMAIN parties
       /\ \A r \in DOMAIN party_invites : r.party_id # last.party
       /\ \A r \in DOMAIN party_attendees : r.party_id # last.party

\* a party that had invite or attendance rows has just been deleted
C8_Witness ==
  /\ last.op = "delete_party" /\ last.code = 200 /\ last.pre = "rows"
  /\ last.party \notin DOMAIN parties

\* C9: every armed reminder job refers to a party that still exists.
C9_JobsOfLiveParties ==
  \A j \in jobs : j.id \in DOMAIN parties

\* C10: right after a successful update that changes date_time, the party has
\* a job if and only if the new start time minus one hour is in the future,
\* that job fires at the new start time minus one hour, and when there is no
\* job remove_party_reminder changes nothing.
C10_RescheduleRearms ==
  (last.op = "update_party" /\ last.code = 200 /\ last.pre = "changed")
    => LET p == last.party
       IN /\ JobsOf(jobs, p) = IF parties[p].date_time - HOUR > now
                               THEN {ReminderJob(p)} ELSE {}
          /\ JobsOf(jobs, p) = {} => remove_party_reminder(jobs, p) = jobs

\* a party with an armed reminder has just been moved to start within the hour
C10_Witness ==
  /\ last.op = "update_party" /\ last.code = 200 /\ last.pre = "changed"
  /\ last.seen = "armed"
  /\ parties[last.party].date_time = now + 1
  /\ JobsOf(jobs, last.party) = {}

\* C11: a delete or an update of a party by a user who is not its creator
\* fails with an Unauthorized error and leaves the parties row, the
\* party_invites and party_attendees rows and the job store as they were.
UnauthorizedCodes == {401, 403}
C11_NonCreatorUnauthorized ==
  [][\A u \in UserIds, p \in PartyIds :
       (/\ p \in DOMAIN parties
        /\ parties[p].creator_id # u
        /\ \/ delete_party(u, p)
           \/ \E given \in BOOLEAN, dt \in DateTimes, aware \in BOOLEAN :
                 update_party(u, p, given, dt, aware))
       => /\ last'.code \in UnauthorizedCodes
          /\ UNCHANGED <<parties, party_invites, party_attendees, jobs>>]_vars

\* C16: respond_to_invite for a party that does not exist, or for a party for
\* which the caller has no party_invites row, fails with a NotFound error and
\* changes no party_invites or party_attendees row.
NotFoundCodes == {404}
C16_RespondNotFound ==
  [][\A u \in UserIds, p \in PartyIds, accept \in BOOLEAN :
       (/\ respond_to_invite_read(u, p, accept)
        /\ \/ p \notin DOMAIN parties
           \/ StatusOf(party_invites, p, u) = "NONE")
       => /\ last'.code \in NotFoundCodes
          /\ UNCHANGED <<party_invites, party_attendees>>]_vars

\* C17: for update_party, delete_party and remove_attendee the error a caller
\* who is not the creator of an existing party gets differs from the error the
\* same call gets for a party that does not exist.
MissingPartyId == MaxPartyId + 1
ErrorCodes == {400, 401, 403, 404, 409, 500}
C17_NotFoundDiffersFromUnauthorized ==
  \A u \in DOMAIN users, p \in DOMAIN parties, c \in ErrorCodes :
    parties[p].creator_id # u
      => /\ ~ /\ ENABLED (delete_party(u, p) /\ last'.code = c)
              /\ ENABLED (delete_party(u, MissingPartyId) /\ last'.code = c)
         /\ ~ /\ ENABLED (update_party(u, p, TRUE, now, FALSE) /\ last'.code = c)
              /\ ENABLED (update_party(u, MissingPartyId, TRUE, now, FALSE) /\ last'.code = c)
         /\ ~ /\ ENABLED (remove_attendee(u, p, u) /\ last'.code = c)
              /\ ENABLED (remove_attendee(u, MissingPartyId, u) /\ last'.code = c)

\* C12: create_party with any list of invite e-mails succeeds and leaves, for
\* every distinct e-mail of a known user, exactly one PENDING party_invites row
\* and exactly one queued invitation e-mail, and nothing for any other e-mail.
InvitationsQueued(ts, e) == Cardinality({i \in DOMAIN ts : ts[i].to = e})
C12_OneInvitePerKnownEmail ==
  [][\A u \in UserIds, emails \in EmailLists :
       create_party(u, MaxTime, emails)
       => LET p == NextPartyId
              known == {UserByEmail(e) : e \in Elements(emails)} \ {NULL}
          IN /\ last'.code = 200
             /\ Len(tasks') = Cardinality(known)
             /\ \A v \in UserIds :
                  IF v \in known
                  THEN /\ InviteCount(party_invites', p, v) = 1
                       /\ StatusOf(party_invites', p, v) = PENDING
                       /\ InvitationsQueued(tasks', users[v]) = 1
                  ELSE /\ InviteCount(party_invites', p, v) = InviteCount(party_invites, p, v)
                       /\ v \in DOMAIN users => InvitationsQueued(tasks', users[v]) = 0]_vars

\* C13: a reminder run loads the users who have a party_attendees row for the
\* party when it runs, and when it has ended send_email has been called exactly
\* once for each of them and for nobody else.
C13_EveryAttendeeReminded ==
  [][/\ load_attendees
        => firing'.attendees =
             {u \in UserIds : AttendCount(party_attendees, firing.party, u) = 1}
     /\ firing'.stage \in {"done", "error"}
        => /\ Elements(firing'.attempted) = firing'.attendees
           /\ Len(firing'.attempted) = Cardinality(firing'.attendees)]_vars

\* C14: when send_email fails for one attendee the run still calls it for
\* every other attendee: a run never ends with an attendee left to visit.
C14_FailureDoesNotStopRun ==
  firing.stage = "error" => firing.todo = <<>>

\* C15: a reminder run for a party that has been deleted, before the run or
\* during it, sends no e-mail and raises no error.
C15_NoReminderForDeletedParty ==
  [][/\ (\E ok \in BOOLEAN : send_reminder(ok)) => firing.party \in DOMAIN parties
     /\ (\E j \in jobs : fire(j) /\ j.id \notin DOMAIN parties) => firing'.stage = "skipped"]_vars

\* C18: remove_attendee fails and changes nothing unless the caller is the
\* creator of the party; when it succeeds the party_attendees row of the given
\* user and party is gone and every other party_attendees row, every
\* party_invites row with its status, the parties and the job store are as before.
C18_RemovesOnlyTheAttendance ==
  [][\A u \in UserIds, p \in PartyIds, t \in UserIds :
       remove_attendee(u, p, t)
       => /\ UNCHANGED <<party_invites, parties, jobs>>
          /\ IF p \in DOMAIN parties /\ parties[p].creator_id = u
             THEN /\ last'.code = 200
                  /\ \A q \in PartyIds, v \in UserIds :
                       AttendCount(party_attendees', q, v) =
                         IF q = p /\ v = t THEN 0 ELSE AttendCount(party_attendees, q, v)
             ELSE /\ last'.code # 200
                  /\ UNCHANGED party_attendees]_vars

\* the creator has just removed one of two attendees, whose invite stays ACCEPTED
C18_Witness ==
  /\ last.op = "remove_attendee" /\ last.code = 200 /\ last.pre = "row"
  /\ AttendCount(party_attendees, last.party, last.arg) = 0
  /\ StatusOf(party_invites, last.party, last.arg) = ACCEPTED
  /\ \E v \in UserIds : AttendCount(party_attendees, last.party, v) = 1

\* C19: after the account of a user has been deleted, by the user or by an
\* admin, no party_invites or party_attendees row references the user, every
\* party the user created is gone, and no row references one of those parties.
C19_AccountDeletionCascades ==
  [][\A u \in UserIds :
       (/\ u \in DOMAIN users
        /\ delete_user_account(u) \/ delete_user(u))
       => LET created == {p \in DOMAIN parties : parties[p].creator_id = u}
          IN /\ \A r \in DOMAIN party_invites' \cup DOMAIN party_attendees' :
                  r.user_id # u /\ r.party_id \notin created
             /\ \A p \in created : p \notin DOMAIN parties']_vars

C23_FailedUpdateKeepsJob ==
  [][\A u \in UserIds, p \in PartyIds, given \in BOOLEAN, dt \in DateTimes, aware \in BOOLEAN :
       (update_party(u, p, given, dt, aware) /\ last'.code # 200)
       => JobsOf(jobs', p) = JobsOf(jobs, p)]_vars

\* C24: a response to an invite that is already ACCEPTED or DECLINED succeeds
\* and sets the status just given; the same response again (accept after
\* accept, decline after decline) succeeds and leaves the party_invites and
\* party_attendees rows as they were.
C24_ReRespondOverwrites ==
  [][\A r \in DOMAIN inflight :
       (/\ respond_to_invite_write(r)
        /\ r.seen \in {ACCEPTED, DECLINED}
        /\ StatusOf(party_invites, r.party, r.user) = r.seen)
       => LET status == IF r.accept THEN ACCEPTED ELSE DECLINED
          IN /\ last'.code = 200
             /\ StatusOf(party_invites', r.party, r.user) = status
             /\ r.seen = status => UNCHANGED <<party_invites, party_attendees>>]_vars

\* C26: every party_invites row has one of the three statuses of InviteStatus.
C26_StatusIsInviteStatus ==
  \A r \in DOMAIN party_invites : r.status \in InviteStatus

\* C27: no handler answers with success and leaves users, parties,
\* party_invites and party_attendees as they were; in particular
\* remove_attendee for a user without a party_attendees row does not.
C27_NoSilentSuccess ==
  [][(last' # last /\ last'.code = 200
      /\ last'.op \in {"create_party", "respond_to_invite", "delete_party", "remove_attendee",
                        "request_to_join", "delete_user_account", "delete_user"})
     => <<users, parties, party_invites, party_attendees>>' #
          <<users, parties, party_invites, party_attendees>>]_vars

RunStarts == firing' # firing /\ firing'.stage \in {"party", "skipped"}
C25_JobFiresOnceWhileArmed ==
  [][/\ RunStarts => \E j \in jobs : /\ j.id = firing'.party
                                      /\ j.run_date <= now
                                      /\ jobs' = jobs \ {j}
     /\ (jobs \ jobs' # {} /\ ~RunStarts) => firing' = firing]_vars

\* a job has fired for a party and the store holds no job for it any more
C25_Witness ==
  /\ last.op = "fire"
  /\ firing.stage \in {"party", "skipped"}
  /\ firing.party = last.party
  /\ JobsOf(jobs, last.party) = {}

\* The reminder run for parties that start at different times: a party that
\* starts at RemindTime or at MaxTime, the responses to its invites, its
\* deletion, the clock and the job store.
NextStale ==
  \/ \E u \in UserIds, dt \in {RemindTime, MaxTime}, emails \in EmailLists :
        create_party(u, dt, emails)
  \/ /\ inflight = EmptyBag
     /\ \E u \in UserIds, p \in PartyIds, accept \in BOOLEAN : respond_to_invite_read(u, p, accept)
  \/ \E r \in DOMAIN inflight : respond_to_invite_write(r)
  \/ \E u \in UserIds, p \in PartyIds : delete_party(u, p)
  \/ Tick
  \/ \E j \in jobs : fire(j)
  \/ load_attendees
  \/ \E ok \in BOOLEAN : send_reminder(ok)

SpecStale == Init /\ [][NextStale]_vars

\* C29: when a run that a job started sends a reminder for party id p (and
\* send_email returns), the run_date of that job is the date_time now stored for party p minus HOUR.
C29_ReminderMatchesStoredStart ==
  [][(/\ firing.stage = "sending" /\ firing' # firing /\ firing'.stage # "error"
      /\ last.op = "fire" /\ last.party = firing.party
      /\ firing.party \in DOMAIN parties)
     => last.arg = parties[firing.party].date_time - HOUR]_vars

\* C30: a user becomes an attendee of a party (the party exists and holds a
\* party_attendees row of the user) only by an own successful accept whose
\* SELECT found a party_invites row of the user for the party with a status
\* of InviteStatus; the rows written by request_to_join never have one.
IsAttendee(ps, tbl, p, u) == p \in DOMAIN ps /\ AttendCount(tbl, p, u) > 0
C30_AttendeeWasInvited ==
  [][\A p \in PartyIds, u \in UserIds :
       (IsAttendee(parties', party_attendees', p, u) /\ ~IsAttendee(parties, party_attendees, p, u))
       => /\ last'.op = "respond_to_invite" /\ last'.code = 200 /\ last'.arg = 1
          /\ last'.user = u /\ last'.party = p
          /\ last'.seen \in InviteStatus]_vars

\* The accounts: signups, profile updates and account deletions, starting
\* from an empty users table.
InitUsers ==
  /\ app \in {"main", "routes"}
  /\ users = <<>>
  /\ parties = <<>>
  /\ party_invites = EmptyBag
  /\ party_attendees = EmptyBag
  /\ jobs = {}
  /\ now = 0
  /\ inflight = EmptyBag
  /\ last = Outcome("none", 0, 0, 0, 0, "-")
  /\ tasks = <<>>
  /\ firing = Idle
  /\ tokens = {}

NextUsers ==
  \/ \E e \in EmailAddrs : signup_read(e)
  \/ \E r \in DOMAIN inflight, username_free \in BOOLEAN : signup_write(r, username_free)
  \/ \E u \in UserIds, given \in BOOLEAN, e \in EmailAddrs, username_free \in BOOLEAN :
        update_user(u, given, e, username_free)
  \/ \E u \in UserIds : delete_user_account(u)
  \/ \E t \in UserIds : delete_user(t)

SpecUsers == InitUsers /\ [][NextUsers]_vars

\* C21: no two rows of users have the same email, and a signup with an email
\* that a row of users holds ends with a Conflict code and leaves users as it
\* was, whether the signup finds the row with its SELECT or with its INSERT.
EmailsUnique == \A u, v \in DOMAIN users : users[u] = users[v] => u = v
C21_EmailsUniqueSignupConflicts ==
  /\ []EmailsUnique
  /\ [][/\ \A e \in EmailAddrs :
            (signup_read(e) /\ UserByEmail(e) # NULL)
            => last'.code \in ConflictCodes /\ users' = users
        /\ \A r \in DOMAIN inflight, username_free \in BOOLEAN :
            (signup_write(r, username_free) /\ UserByEmail(r.email) # NULL)
            => last'.code \in ConflictCodes /\ users' = users]_vars

\* Updates of a party that run at the same time: creation of the party and
\* the statements of update_party, interleaved, with date_time values that
\* carry no offset and the clock standing still.
NextReschedule ==
  \/ \E u \in UserIds, dt \in DateTimes : create_party(u, dt, <<>>)
  \/ \E u \in UserIds, p \in PartyIds, given \in BOOLEAN, dt \in DateTimes :
        update_party_read(u, p, given, dt, FALSE)
  \/ \E r \in DOMAIN inflight : update_party_get_job(r)
  \/ \E r \in DOMAIN inflight : update_party_remove_job(r)
  \/ \E r \in DOMAIN inflight : update_party_schedule(r)
  \/ \E r \in DOMAIN inflight : update_party_commit(r)

SpecReschedule == Init /\ [][NextReschedule]_vars

\* C22: once no update of a party is running any more and the last one has
\* answered with success, the job store holds at most one job for the party,
\* it holds one when the stored date_time minus HOUR is in the future, and
\* the run_date of the job is the stored date_time minus HOUR.
C22_ConcurrentReschedules ==
  \A p \in DOMAIN parties :
    (inflight = EmptyBag /\ last.op = "update_party" /\ last.party = p /\ last.code = 200)
    => /\ Cardinality(JobsOf(jobs, p)) <= 1
       /\ parties[p].date_time - HOUR > now => JobsOf(jobs, p) # {}
       /\ \A j \in JobsOf(jobs, p) : j.run_date = parties[p].date_time - HOUR

\* C32: the creator_id of every row of parties is the id of a row of users.
C32_EveryPartyHasCreator ==
  \A p \in DOMAIN parties : parties[p].creator_id \in DOMAIN users

\* C33: when create_party answers with an error, the parties table, the
\* party_invites table and the job store are what they were before the call.
C33_CreatePartyAllOrNothing ==
  [][\A u \in UserIds, emails \in EmailLists :
       (create_party(u, MaxTime, emails) /\ last'.code # 200)
       => /\ parties' = parties
          /\ party_invites' = party_invites
          /\ jobs' = jobs]_vars

\* The accounts and the access tokens: signups, answered one at a time,
\* logins, profile updates and account deletions while the clock runs.
NextAuth ==
  \/ /\ inflight = EmptyBag
     /\ \E e \in EmailAddrs : signup_read(e)
  \/ \E r \in DOMAIN inflight, username_free \in BOOLEAN : signup_write(r, username_free)
  \/ \E e \in EmailAddrs, password_ok \in BOOLEAN : login(e, password_ok)
  \/ \E u \in UserIds, given \in BOOLEAN, e \in EmailAddrs, username_free \in BOOLEAN :
        update_user(u, given, e, username_free)
  \/ \E u \in UserIds : delete_user_account(u)
  \/ \E t \in UserIds : delete_user(t)
  \/ Tick

SpecAuth == InitUsers /\ [][NextAuth]_vars

\* C31: get_current_user yields for an access token either the 401 or the
\* user the token was issued to.
C31_TokenAuthenticatesItsUser ==
  \A t \in tokens : get_current_user(t) \in {NULL, t.issued_to}

====
